---------------------------- MODULE Spec2Model ----------------------------
(***************************************************************************)
(* Ace Invaders: the shoe (game/cards.py), the hand valuation routines     *)
(* (game/players.py, game/game_session.py) and the round loop              *)
(* GameSession.play (game/game_session.py).                                *)
(*                                                                         *)
(* Money is kept in tenths of a dollar so that the 3:2 and 6:5 blackjack   *)
(* payouts of an integer dollar bet stay integers.                         *)
(* A card is its position 1..52*decks in the order build_deck creates it;  *)
(* NoCard is Python's None, NoHand / NoBet are the None of a (None, None)  *)
(* result.                                                                 *)
(***************************************************************************)
EXTENDS Integers, Sequences, FiniteSets, TLC

(***************************** bounds **************************************)
\* rounds explored from every outcome of the first shuffle (Spec)
MaxRounds == 2
\* outcomes modelled for a reshuffle of the cards left in the shoe
NumReshuffles == 2
\* longest hand given to the valuation routines (HandSpec)
MaxHandLen == 3
\* largest deck count the shoe is exercised with on its own (DeckSpec)
MaxDeckCount == 2

(************************** program constants ******************************)
MIN_DECKS == 1
MAX_DECKS == 8
MIN_BET == 1
MAX_BET == 1000
INITIAL_BANKROLL == 1000
DeckSize == 52
InitialDealSize == 4

NoCard == 0
NoBet == -1
NoHand == <<-1>>

Tenths(dollars) == dollars * 10

(******************************* Card **************************************)
Ranks == <<"2", "3", "4", "5", "6", "7", "8", "9", "10", "J", "Q", "K", "A">>

CardRank(c) == Ranks[((c - 1) % 13) + 1]

CardSuit(c) == ((c - 1) % DeckSize) \div 13

CardValue(c) ==
    IF CardRank(c) = "A" THEN 11
    ELSE IF CardRank(c) \in {"J", "Q", "K"} THEN 10
    ELSE ((c - 1) % 13) + 2

get_count_value(c) ==
    IF CardRank(c) \in {"2", "3", "4", "5", "6"} THEN 1
    ELSE IF CardRank(c) \in {"10", "J", "Q", "K", "A"} THEN -1
    ELSE 0

(************************* sequence helpers ********************************)
Range(s) == {s[i] : i \in 1..Len(s)}

\* sum(card.value for card in hand)
RECURSIVE SumValues(_)
SumValues(h) == IF h = <<>> THEN 0 ELSE CardValue(Head(h)) + SumValues(Tail(h))

\* sum(1 for card in hand if card.rank == 'A')
RECURSIVE CountAces(_)
CountAces(h) ==
    IF h = <<>> THEN 0
    ELSE (IF CardRank(Head(h)) = "A" THEN 1 ELSE 0) + CountAces(Tail(h))

\* sum(card.value for card in hand if card.rank != 'A')
RECURSIVE SumNonAces(_)
SumNonAces(h) ==
    IF h = <<>> THEN 0
    ELSE (IF CardRank(Head(h)) = "A" THEN 0 ELSE CardValue(Head(h)))
             + SumNonAces(Tail(h))

Reverse(s) == [i \in 1..Len(s) |-> s[Len(s) + 1 - i]]

HasNone(h) == \E i \in 1..Len(h) : h[i] = NoCard

(******************************* Deck **************************************)
build_deck(n) == [i \in 1..(n * DeckSize) |-> i]

\* int(initial_cards * (1 - 0.75)) for the default cut_card_percent
CutCardPosition(initial) == initial \div 4

cards_left(cs) == Len(cs)

\* Deck.is_cut_card comparing with < in place of <=
is_cut_card_strict(cs, cut) == cards_left(cs) < cut

is_cut_card(cs, cut) == cards_left(cs) <= cut

\* the cards named in key brought to the top in that order, the others
\* keeping their order: one outcome of random.shuffle
Arrange(cs, key) ==
    SelectSeq(key, LAMBDA c : c \in Range(cs))
        \o SelectSeq(cs, LAMBDA c : c \notin Range(key))

\* k-th modelled outcome of random.shuffle on the cards left in the shoe
Permute(cs, k) ==
    IF k = 0 \/ cs = <<>> THEN cs
    ELSE IF k = 1 THEN Reverse(cs)
    ELSE [i \in 1..Len(cs) |-> cs[((i - 1 + (k - 1)) % Len(cs)) + 1]]

\* cards a hand receives from n successive deal_card calls (None when empty)
Taken(cs, n) == [i \in 1..n |-> IF i <= Len(cs) THEN cs[i] ELSE NoCard]

Rest(cs, n) == IF n >= Len(cs) THEN <<>> ELSE SubSeq(cs, n + 1, Len(cs))

\* running_count after dealing the cards of seq `got`, those at the
\* positions in `down` face down
RECURSIVE CountAfter(_, _, _, _)
CountAfter(rc, got, down, i) ==
    IF i > Len(got) THEN rc
    ELSE CountAfter(IF got[i] # NoCard /\ i \notin down
                        THEN rc + get_count_value(got[i]) ELSE rc,
                    got, down, i + 1)

DealOp(got) == IF HasNone(got) THEN "deal_empty" ELSE "deal"

(*********************** hand valuation ************************************)
RECURSIVE AdjustAces(_, _)
AdjustAces(value, aces) ==
    IF value > 21 /\ aces > 0 THEN AdjustAces(value - 10, aces - 1) ELSE value

\* GameSession.hand_value
hand_value(h) == AdjustAces(SumValues(h), CountAces(h))

\* Dealer.get_hand_value
get_hand_value(h) == AdjustAces(SumValues(h), CountAces(h))

RECURSIVE AddAces(_, _)
AddAces(value, aces) ==
    IF aces = 0 THEN value
    ELSE AddAces(IF value + 11 <= 21 THEN value + 11 ELSE value + 1, aces - 1)

\* Hand.get_value
get_value(h) == AddAces(SumNonAces(h), CountAces(h))

\* Hand.is_soft
is_soft(h) == CountAces(h) > 0 /\ SumNonAces(h) + 11 <= 21

\* GameSession.is_soft_hand
is_soft_hand(h) ==
    LET value == SumValues(h)
        aces == CountAces(h)
        alt_value == value - (aces * 10)
    IN aces > 0 /\ alt_value + 10 <= 21

\* Dealer._is_soft_hand
dealer_is_soft_hand(h) ==
    IF ~(\E i \in 1..Len(h) : CardRank(h[i]) = "A") THEN FALSE
    ELSE SumNonAces(h) + CountAces(h) + 10 <= 21

\* GameSession.check_blackjack
check_blackjack(h) == Len(h) = 2 /\ hand_value(h) = 21

\* GameSession.can_split
can_split(h) == Len(h) = 2 /\ CardRank(h[1]) = CardRank(h[2])


(******************************* state *************************************)
VARIABLES
    \* Deck
    cards, running_count, number_of_decks, initial_cards, cut_card_position,
    \* last operation performed on the Deck:
    \* "init", "shuffle", "deal", or "deal_empty" (deal_card found no card)
    op,
    \* PlayerProfile.bankroll (tenths of a dollar)
    bankroll,
    \* GameSession settings read from the table rules
    blackjack_payout, dealer_hits_soft_17,
    \* GameSession.play: position and locals
    pc, bet, player_hand, dealer_hand,
    hands_to_compare, session_stats,
    \* GameSession.player_turn: locals of the innermost call, its return
    \* value, and the handle_split calls it is nested in
    hand, turn_bet, can_double, can_split_now, result, stack,
    \* index of the next entry settled by compare_hands
    cmp_idx,
    \* rounds started so far, and the round's bet as accepted by get_bet:
    \* the bankroll before it and its amount
    rounds, wager,
    \* the last answer typed at a prompt of get_bet or player_turn and the
    \* line printed in reply
    io,
    \* argument and return value of a routine called on its own
    arg, ret

deckVars == <<cards, running_count, number_of_decks, initial_cards,
              cut_card_position, op>>

ruleVars == <<blackjack_payout, dealer_hits_soft_17>>

turnVars == <<hand, turn_bet, can_double, can_split_now, result, stack>>

callVars == <<arg, ret>>

vars == <<cards, running_count, number_of_decks, initial_cards,
          cut_card_position, op, bankroll, blackjack_payout,
          dealer_hits_soft_17, pc, bet, player_hand, dealer_hand,
          hands_to_compare, session_stats, hand, turn_bet, can_double,
          can_split_now, result, stack, cmp_idx, rounds, wager, io, arg,
          ret>>

(***************************** inputs **************************************)
\* the card of a rank and a suit (0 hearts, 1 diamonds, 2 clubs, 3 spades)
\* in the first deck build_deck creates
CardOf(rank, suit) ==
    (suit * 13) + (CHOOSE i \in 1..13 : Ranks[i] = rank)

\* the cards the modelled outcomes of the first shuffle put on top of the
\* shoe: two aces, two tens and a pair of eights
Pool ==
    {CardOf("A", 0), CardOf("K", 0), CardOf("A", 1), CardOf("Q", 1),
     CardOf("8", 0), CardOf("8", 1)}

\* every way of putting InitialDealSize cards of the pool on top
DealKeys ==
    {k \in [1..InitialDealSize -> Pool] :
        \A i, j \in 1..InitialDealSize : i # j => k[i] # k[j]}

\* dollars typed at the bet prompt
BetInputs == MIN_BET..(MIN_BET + 1)

\* numbers typed at the bet prompt that no table accepts
BadBets == {MIN_BET - 1, MAX_BET + 1}

\* answers at the move prompt that can be turned down: double, split, and
\* a key that is no move
BadMoves == {"d", "p", "x"}

\* bankroll of the profile the session is started with, in dollars
InitBankrolls == {3, INITIAL_BANKROLL}

Payouts == {"3:2", "6:5", "1:1"}

NoResult == [hand |-> NoHand, bet |-> NoBet]

NoCall == [fn |-> "none", val |-> 0]

\* nothing typed yet
NoIo == [input |-> "", output |-> ""]

\* `input` typed at a prompt, `output` printed in reply
Io(input, output) == [input |-> input, output |-> output]

ZeroStats ==
    [hands_played |-> 0, hands_won |-> 0, hands_lost |-> 0, pushes |-> 0,
     blackjacks |-> 0, busts |-> 0, dealer_busts |-> 0]

(****************************** Init ***************************************)
\* Deck.__init__ for a valid deck count
DeckConstructed(n) ==
    /\ number_of_decks = n
    /\ running_count = 0
    /\ initial_cards = Len(build_deck(n))
    /\ cut_card_position = CutCardPosition(Len(build_deck(n)))

\* locals of play() and player_turn() before the first round
PlayIdle ==
    /\ bet = NoBet
    /\ player_hand = <<>>
    /\ dealer_hand = <<>>
    /\ hands_to_compare = <<>>
    /\ session_stats = ZeroStats
    /\ hand = <<>>
    /\ turn_bet = NoBet
    /\ can_double = FALSE
    /\ can_split_now = FALSE
    /\ result = NoResult
    /\ stack = <<>>
    /\ cmp_idx = 1
    /\ rounds = 0
    /\ io = NoIo

\* GameSession.__init__ on a profile and a table, up to the first bet prompt
SessionInit(keys, bankrolls, payouts, soft17s) ==
    /\ DeckConstructed(MIN_DECKS)
    /\ cards \in {Arrange(build_deck(MIN_DECKS), k) : k \in keys}
    /\ op = "shuffle"
    /\ bankroll \in {Tenths(d) : d \in bankrolls}
    /\ wager = [before |-> bankroll, amount |-> 0]
    /\ blackjack_payout \in payouts
    /\ dealer_hits_soft_17 \in soft17s
    /\ pc = "bet"
    /\ PlayIdle
    /\ arg = <<>>
    /\ ret = NoCall

Init == SessionInit(DealKeys, InitBankrolls, Payouts, BOOLEAN)

\* the first shuffle of a whole session: a pair of eights on top
LongKey == <<CardOf("8", 0), CardOf("8", 1)>>

\* a whole session of a profile with three dollars at a table with the
\* default rules
LongInit == SessionInit({LongKey}, {3}, {"3:2"}, {FALSE})


(************************ GameSession.play *********************************)
Bump(stats, fields) ==
    [f \in DOMAIN stats |-> IF f \in fields THEN stats[f] + 1 ELSE stats[f]]

\* the round cannot go on: an exception leaves play()
Crashed == pc' = "crashed"

\* play(): bankroll below the table minimum ends the session
NotEnoughMoney ==
    /\ pc = "bet"
    /\ bankroll < Tenths(MIN_BET)
    /\ pc' = "broke"
    /\ UNCHANGED <<deckVars, ruleVars, turnVars, callVars, bankroll, bet,
                   player_hand, dealer_hand, hands_to_compare, session_stats,
                   cmp_idx, rounds, wager, io>>

\* get_bet(): 'q' at the bet prompt
Quit ==
    /\ pc = "bet"
    /\ bankroll >= Tenths(MIN_BET)
    /\ pc' = "quit"
    /\ UNCHANGED <<deckVars, ruleVars, turnVars, callVars, bankroll, bet,
                   player_hand, dealer_hand, hands_to_compare, session_stats,
                   cmp_idx, rounds, wager, io>>

\* get_bet() forgetting to take the bet out of the bankroll
AfterBetKept(bk, b) == bk

\* get_bet(): the bankroll after a bet of b is accepted
AfterBet(bk, b) == bk - b

\* get_bet() asking only for a bet within the table limits
ValidBetWithinLimits(d, money) == MIN_BET <= d /\ d <= MAX_BET

\* get_bet(): min_bet <= bet <= max_bet and bet <= bankroll
ValidBet(d, money) == MIN_BET <= d /\ d <= MAX_BET /\ Tenths(d) <= money

\* get_bet(): a bet of d dollars within the table limits and the bankroll
PlaceBet(d) ==
    /\ pc = "bet"
    /\ bankroll >= Tenths(MIN_BET)
    /\ ValidBet(d, bankroll)
    /\ bankroll' = AfterBet(bankroll, Tenths(d))
    /\ bet' = Tenths(d)
    /\ wager' = [before |-> bankroll, amount |-> Tenths(d)]
    /\ rounds' = rounds + 1
    /\ io' = Io("bet", "")
    /\ pc' = "deal"
    /\ UNCHANGED <<deckVars, ruleVars, turnVars, callVars, player_hand,
                   dealer_hand, hands_to_compare, session_stats, cmp_idx>>

\* get_bet(): a number outside the table limits or above the bankroll is
\* answered with a message and asked for again
RejectBet(d) ==
    /\ pc = "bet"
    /\ bankroll >= Tenths(MIN_BET)
    /\ ~ValidBet(d, bankroll)
    /\ io' = Io("bet", IF Tenths(d) > bankroll THEN "You only have"
                       ELSE "Please enter a bet between")
    /\ UNCHANGED <<deckVars, ruleVars, turnVars, callVars, bankroll, pc, bet,
                   player_hand, dealer_hand, hands_to_compare, session_stats,
                   cmp_idx, rounds, wager>>

\* play(): initial deal, the dealer's second card face down, and the
\* display of the player's hand and of the dealer's first card
InitialDeal ==
    /\ pc = "deal"
    /\ LET got == Taken(cards, InitialDealSize)
       IN /\ cards' = Rest(cards, InitialDealSize)
          /\ running_count' = CountAfter(running_count, got, {4}, 1)
          /\ op' = DealOp(got)
          /\ player_hand' = <<got[1], got[2]>>
          /\ dealer_hand' = <<got[3], got[4]>>
          /\ IF HasNone(<<got[1], got[2], got[3]>>)
                THEN Crashed ELSE pc' = "check"
    /\ UNCHANGED <<number_of_decks, initial_cards, cut_card_position,
                   ruleVars, turnVars, callVars, bankroll, bet,
                   hands_to_compare, session_stats, cmp_idx, rounds, wager, io>>

\* play() checking for a dealer blackjack under a ten only
DealerPeeksTenOnly(upcard) == CardValue(upcard) \in {10}

\* play(): the dealer checks for blackjack when the upcard is an ace or a ten
DealerPeeks(upcard) == CardValue(upcard) \in {10, 11}

\* flip_card() leaving the running count alone
flip_card_uncounted(rc, card) == rc

\* flip_card(): the running count after the card is revealed
flip_card(rc, card) == rc + get_count_value(card)

\* play(): the peek finds a dealer blackjack, a push against a player
\* blackjack and a loss otherwise; check_blackjack raises on a hole card
\* that was never dealt
DealerBlackjack ==
    /\ pc = "check"
    /\ DealerPeeks(dealer_hand[1])
    /\ dealer_hand[2] = NoCard \/ check_blackjack(dealer_hand)
    /\ IF dealer_hand[2] = NoCard
          THEN /\ Crashed
               /\ UNCHANGED <<running_count, bankroll, session_stats>>
          ELSE /\ running_count' = flip_card(running_count, dealer_hand[2])
               /\ IF check_blackjack(player_hand)
                     THEN /\ bankroll' = bankroll + bet
                          /\ session_stats' =
                                 Bump(session_stats, {"hands_played", "pushes"})
                     ELSE /\ bankroll' = bankroll
                          /\ session_stats' =
                                 Bump(session_stats,
                                      {"hands_played", "hands_lost"})
               /\ pc' = "again"
    /\ UNCHANGED <<cards, number_of_decks, initial_cards, cut_card_position,
                   op, ruleVars, turnVars, callVars, bet, player_hand,
                   dealer_hand, hands_to_compare, cmp_idx, rounds, wager, io>>

\* play(): winnings of a player blackjack on a bet of b
BlackjackPayout(ratio, b) ==
    IF ratio = "3:2" THEN (b * 3) \div 2 ELSE (b * 6) \div 5

\* play(): player blackjack, paid at once; flip_card raises on a hole card
\* that was never dealt
PlayerBlackjack ==
    /\ pc = "check"
    /\ ~DealerPeeks(dealer_hand[1])
         \/ (dealer_hand[2] # NoCard /\ ~check_blackjack(dealer_hand))
    /\ check_blackjack(player_hand)
    /\ IF dealer_hand[2] = NoCard
          THEN /\ Crashed
               /\ UNCHANGED <<running_count, bankroll, session_stats>>
          ELSE /\ running_count' = flip_card(running_count, dealer_hand[2])
               /\ bankroll' =
                      bankroll + (bet + BlackjackPayout(blackjack_payout, bet))
               /\ session_stats' =
                      Bump(session_stats,
                           {"hands_played", "hands_won", "blackjacks"})
               /\ pc' = "again"
    /\ UNCHANGED <<cards, number_of_decks, initial_cards, cut_card_position,
                   op, ruleVars, turnVars, callVars, bet, player_hand,
                   dealer_hand, hands_to_compare, cmp_idx, rounds, wager, io>>

(********************** GameSession.player_turn ****************************)
\* player_turn(h, b) from its first line to its first prompt, or to its
\* return when the hand already stands at 21
EnterTurn(h, b) ==
    /\ hand' = h
    /\ turn_bet' = b
    /\ can_double' = TRUE
    /\ can_split_now' = can_split(h)
    /\ IF hand_value(h) < 21
          THEN pc' = "turn" /\ result' = result
          ELSE pc' = "ret" /\ result' = [hand |-> h, bet |-> b]

\* play(): no blackjack; the player's turn starts
BeginPlayerTurn ==
    /\ pc = "check"
    /\ ~DealerPeeks(dealer_hand[1])
         \/ (dealer_hand[2] # NoCard /\ ~check_blackjack(dealer_hand))
    /\ ~check_blackjack(player_hand)
    /\ hands_to_compare' = <<>>
    /\ stack' = <<>>
    /\ EnterTurn(player_hand, bet)
    /\ UNCHANGED <<deckVars, ruleVars, callVars, bankroll, bet, player_hand,
                   dealer_hand, session_stats, cmp_idx, rounds, wager, io>>

\* the list play() holds as player_hand is the list the outermost
\* player_turn call appends to
Aliased(h) == IF stack = <<>> THEN h ELSE player_hand

\* player_turn() leaving can_double and can_split as they were after a hit
AfterHitKept(flag) == flag

\* player_turn(): can_double and can_split after a hit
AfterHit(flag) == FALSE

\* player_turn(): 'h'
Hit ==
    /\ pc = "turn"
    /\ LET got == Taken(cards, 1)
           h == Append(hand, got[1])
       IN /\ cards' = Rest(cards, 1)
          /\ running_count' = CountAfter(running_count, got, {}, 1)
          /\ op' = DealOp(got)
          /\ hand' = h
          /\ player_hand' = Aliased(h)
          /\ io' = Io("h", "You hit!")
          /\ IF got[1] = NoCard
                THEN /\ Crashed
                     /\ UNCHANGED <<can_double, can_split_now, result>>
                ELSE /\ can_double' = AfterHit(can_double)
                     /\ can_split_now' = AfterHit(can_split_now)
                     /\ IF hand_value(h) < 21
                           THEN pc' = "turn" /\ result' = result
                           ELSE /\ pc' = "ret"
                                /\ result' = [hand |-> h, bet |-> turn_bet]
    /\ UNCHANGED <<number_of_decks, initial_cards, cut_card_position,
                   ruleVars, callVars, bankroll, bet, dealer_hand,
                   hands_to_compare, session_stats, turn_bet, stack, cmp_idx,
                   rounds, wager>>

\* player_turn(): 's'
Stand ==
    /\ pc = "turn"
    /\ pc' = "ret"
    /\ result' = [hand |-> hand, bet |-> turn_bet]
    /\ io' = Io("s", "You stand.")
    /\ UNCHANGED <<deckVars, ruleVars, callVars, bankroll, bet, player_hand,
                   dealer_hand, hands_to_compare, session_stats, hand,
                   turn_bet, can_double, can_split_now, stack, cmp_idx,
                   rounds, wager>>

\* player_turn(): the last branch, taken by any other answer, by 'd' once
\* can_double is false and by 'p' while can_split is false
InvalidOption(move) ==
    /\ pc = "turn"
    /\ move \notin {"h", "s"}
    /\ move = "d" => ~can_double
    /\ move = "p" => ~can_split_now
    /\ io' = Io(move, "Invalid option.")
    /\ UNCHANGED <<deckVars, ruleVars, turnVars, callVars, bankroll, pc, bet,
                   player_hand, dealer_hand, hands_to_compare, session_stats,
                   cmp_idx, rounds, wager>>

\* a second bet taken whatever the bankroll holds
CanAffordAlways(money, stake) == TRUE

\* player_turn(), handle_split(): the bankroll covers a second bet
CanAfford(money, stake) == money >= stake

\* player_turn(): 'd' while can_double, the bankroll below the bet
DoubleRefused ==
    /\ pc = "turn"
    /\ can_double
    /\ ~CanAfford(bankroll, turn_bet)
    /\ io' = Io("d", "Not enough bankroll to double down.")
    /\ UNCHANGED <<deckVars, ruleVars, turnVars, callVars, bankroll, pc, bet,
                   player_hand, dealer_hand, hands_to_compare, session_stats,
                   cmp_idx, rounds, wager>>

\* player_turn(): 'd' while can_double, the bankroll covering the bet
Double ==
    /\ pc = "turn"
    /\ can_double
    /\ CanAfford(bankroll, turn_bet)
    /\ LET got == Taken(cards, 1)
           h == Append(hand, got[1])
       IN /\ bankroll' = bankroll - turn_bet
          /\ turn_bet' = turn_bet * 2
          /\ cards' = Rest(cards, 1)
          /\ running_count' = CountAfter(running_count, got, {}, 1)
          /\ op' = DealOp(got)
          /\ hand' = h
          /\ player_hand' = Aliased(h)
          /\ io' = Io("d", "You doubled down!")
          /\ IF got[1] = NoCard
                THEN Crashed /\ result' = result
                ELSE /\ pc' = "ret"
                     /\ result' = [hand |-> h, bet |-> turn_bet * 2]
    /\ UNCHANGED <<number_of_decks, initial_cards, cut_card_position,
                   ruleVars, callVars, bet, dealer_hand, hands_to_compare,
                   session_stats, can_double, can_split_now, stack, cmp_idx,
                   rounds, wager>>

\* handle_split() starting both hands from the pair's first card
SplitHandsSameCard(h, got) == << <<h[1], got[1]>>, <<h[1], got[2]>> >>

\* handle_split(): the two hands made of a pair and the two cards dealt
SplitHands(h, got) == << <<h[1], got[1]>>, <<h[2], got[2]>> >>

\* player_turn(): 'p' while can_split. handle_split() hands the hand back
\* as the turn's result when the bankroll is below the bet; otherwise it
\* deals both hands, takes the second bet and plays the first hand
Split ==
    /\ pc = "turn"
    /\ can_split_now
    /\ IF ~CanAfford(bankroll, turn_bet)
          THEN /\ pc' = "ret"
               /\ result' = [hand |-> hand, bet |-> turn_bet]
               /\ io' = Io("p", "Not enough bankroll to split.")
               /\ UNCHANGED <<deckVars, bankroll, hand, turn_bet, can_double,
                              can_split_now, stack>>
          ELSE LET got == Taken(cards, 2)
                   hs == SplitHands(hand, got)
               IN /\ cards' = Rest(cards, 2)
                  /\ running_count' = CountAfter(running_count, got, {}, 1)
                  /\ op' = DealOp(got)
                  /\ bankroll' = bankroll - turn_bet
                  /\ io' = Io("p", "Splitting your hand!")
                  /\ stack' =
                         <<[hand2 |-> hs[2], bet |-> turn_bet, idx |-> 1]>>
                             \o stack
                  /\ IF HasNone(hs[1])
                        THEN /\ Crashed
                             /\ UNCHANGED <<hand, turn_bet, can_double,
                                            can_split_now, result>>
                        ELSE EnterTurn(hs[1], turn_bet)
                  /\ UNCHANGED <<number_of_decks, initial_cards,
                                 cut_card_position>>
    /\ UNCHANGED <<ruleVars, callVars, bet, player_hand, dealer_hand,
                   hands_to_compare, session_stats, cmp_idx, rounds, wager>>

\* handle_split(): the first hand's turn returned; its result is recorded
\* and the second hand is shown and played
NextSplitHand ==
    /\ pc = "ret"
    /\ stack # <<>>
    /\ Head(stack).idx = 1
    /\ hands_to_compare' = Append(hands_to_compare, <<result.hand, result.bet>>)
    /\ stack' = <<[Head(stack) EXCEPT !.idx = 2]>> \o Tail(stack)
    /\ IF HasNone(Head(stack).hand2)
          THEN /\ Crashed
               /\ UNCHANGED <<hand, turn_bet, can_double, can_split_now,
                              result>>
          ELSE EnterTurn(Head(stack).hand2, Head(stack).bet)
    /\ UNCHANGED <<deckVars, ruleVars, callVars, bankroll, bet, player_hand,
                   dealer_hand, session_stats, cmp_idx, rounds, wager, io>>

\* handle_split(): the second hand's turn returned; its result is recorded
\* and (None, None) is returned to the player_turn that called handle_split
SplitDone ==
    /\ pc = "ret"
    /\ stack # <<>>
    /\ Head(stack).idx = 2
    /\ hands_to_compare' = Append(hands_to_compare, <<result.hand, result.bet>>)
    /\ stack' = Tail(stack)
    /\ result' = NoResult
    /\ pc' = "ret"
    /\ UNCHANGED <<deckVars, ruleVars, callVars, bankroll, bet, player_hand,
                   dealer_hand, session_stats, hand, turn_bet, can_double,
                   can_split_now, cmp_idx, rounds, wager, io>>

\* play() going on as soon as any player_turn call has returned, split
\* hands still to be played
ReturnToPlayEarly ==
    /\ pc = "ret"
    /\ player_hand' = result.hand
    /\ bet' = result.bet
    /\ pc' = "process"
    /\ UNCHANGED <<deckVars, ruleVars, callVars, turnVars, bankroll,
                   dealer_hand, hands_to_compare, session_stats, cmp_idx,
                   rounds, wager, io>>

\* play(): the outermost player_turn returned; its result, a non-empty
\* tuple, replaces player_hand and bet
ReturnToPlay ==
    /\ pc = "ret"
    /\ stack = <<>>
    /\ player_hand' = result.hand
    /\ bet' = result.bet
    /\ pc' = "process"
    /\ UNCHANGED <<deckVars, ruleVars, callVars, turnVars, bankroll,
                   dealer_hand, hands_to_compare, session_stats, cmp_idx,
                   rounds, wager, io>>


(***************** play(): dealer turn and settlement **********************)
Truthy(h) == h # NoHand /\ h # <<>>

\* play(): there are hands to settle against the dealer (split hands, or a
\* hand that did not bust); the hole card is revealed and dealer_turn starts
RevealHoleCard ==
    /\ pc = "process"
    /\ \/ hands_to_compare # <<>>
       \/ (Truthy(player_hand) /\ ~(hand_value(player_hand) > 21))
    /\ IF dealer_hand[2] = NoCard
          THEN Crashed /\ running_count' = running_count
          ELSE /\ running_count' = flip_card(running_count, dealer_hand[2])
               /\ pc' = "dealer"
    /\ UNCHANGED <<cards, number_of_decks, initial_cards, cut_card_position,
                   op, ruleVars, turnVars, callVars, bankroll, bet,
                   player_hand, dealer_hand, hands_to_compare, session_stats,
                   cmp_idx, rounds, wager, io>>

\* play(): the player's only hand busted
PlayerBusted ==
    /\ pc = "process"
    /\ hands_to_compare = <<>>
    /\ Truthy(player_hand)
    /\ hand_value(player_hand) > 21
    /\ IF dealer_hand[2] = NoCard
          THEN /\ Crashed
               /\ UNCHANGED <<running_count, session_stats>>
          ELSE /\ running_count' = flip_card(running_count, dealer_hand[2])
               /\ session_stats' =
                      Bump(session_stats, {"hands_played", "hands_lost", "busts"})
               /\ pc' = "cut"
    /\ UNCHANGED <<cards, number_of_decks, initial_cards, cut_card_position,
                   op, ruleVars, turnVars, callVars, bankroll, bet,
                   player_hand, dealer_hand, hands_to_compare, cmp_idx,
                   rounds, wager, io>>

\* dealer_turn() drawing below 17 only, whatever the soft 17 rule
DealerMustHitBelow17(h, hits_soft_17) == hand_value(h) < 17

\* dealer_turn(): the loop condition
DealerMustHit(h, hits_soft_17) ==
    \/ hand_value(h) < 17
    \/ (hits_soft_17 /\ hand_value(h) = 17 /\ is_soft_hand(h))

\* dealer_turn(): one pass of the loop
DealerHit ==
    /\ pc = "dealer"
    /\ DealerMustHit(dealer_hand, dealer_hits_soft_17)
    /\ LET got == Taken(cards, 1)
       IN /\ cards' = Rest(cards, 1)
          /\ running_count' = CountAfter(running_count, got, {}, 1)
          /\ op' = DealOp(got)
          /\ dealer_hand' = Append(dealer_hand, got[1])
          /\ IF got[1] = NoCard THEN Crashed ELSE pc' = "dealer"
    /\ UNCHANGED <<number_of_decks, initial_cards, cut_card_position,
                   ruleVars, turnVars, callVars, bankroll, bet, player_hand,
                   hands_to_compare, session_stats, cmp_idx, rounds, wager, io>>

\* dealer_turn(): the loop ends, the dealer stands or has busted
DealerDone ==
    /\ pc = "dealer"
    /\ ~DealerMustHit(dealer_hand, dealer_hits_soft_17)
    /\ session_stats' =
           IF hand_value(dealer_hand) <= 21 THEN session_stats
           ELSE Bump(session_stats, {"dealer_busts"})
    /\ cmp_idx' = 1
    /\ pc' = "settle"
    /\ UNCHANGED <<deckVars, ruleVars, turnVars, callVars, bankroll, bet,
                   player_hand, dealer_hand, hands_to_compare, rounds,
                   wager, io>>

\* play(): the (hand, bet) pairs handed to compare_hands, in order
ToSettle ==
    IF hands_to_compare # <<>> THEN hands_to_compare
    ELSE << <<player_hand, bet>> >>

\* compare_hands() looking at the dealer's bust before the player's
OutcomeDealerFirst(player_value, dealer_value) ==
    IF dealer_value > 21 THEN "dealer_bust"
    ELSE IF player_value > 21 THEN "bust"
    ELSE IF player_value > dealer_value THEN "win"
    ELSE IF dealer_value > player_value THEN "lose"
    ELSE "push"

\* compare_hands(): the branch taken
Outcome(player_value, dealer_value) ==
    IF player_value > 21 THEN "bust"
    ELSE IF dealer_value > 21 THEN "dealer_bust"
    ELSE IF player_value > dealer_value THEN "win"
    ELSE IF dealer_value > player_value THEN "lose"
    ELSE "push"

\* compare_hands(): what the branch adds to the bankroll
Credit(outcome, b) ==
    IF outcome \in {"dealer_bust", "win"} THEN b * 2
    ELSE IF outcome = "push" THEN b
    ELSE 0

\* compare_hands() counting a bust as a bust only, not as a hand lost
CountedBustApart(outcome) ==
    IF outcome = "bust" THEN {"hands_played", "busts"}
    ELSE IF outcome \in {"dealer_bust", "win"} THEN {"hands_played", "hands_won"}
    ELSE IF outcome = "lose" THEN {"hands_played", "hands_lost"}
    ELSE {"hands_played", "pushes"}

\* compare_hands(): the counters the branch increments
Counted(outcome) ==
    IF outcome = "bust" THEN {"hands_played", "hands_lost", "busts"}
    ELSE IF outcome \in {"dealer_bust", "win"} THEN {"hands_played", "hands_won"}
    ELSE IF outcome = "lose" THEN {"hands_played", "hands_lost"}
    ELSE {"hands_played", "pushes"}

\* play(): compare_hands() on the next hand to settle
CompareHands ==
    /\ pc = "settle"
    /\ cmp_idx <= Len(ToSettle)
    /\ LET entry == ToSettle[cmp_idx]
       IN IF entry[1] = NoHand
             THEN /\ Crashed
                  /\ UNCHANGED <<bankroll, session_stats, cmp_idx>>
             ELSE LET o == Outcome(hand_value(entry[1]),
                                   hand_value(dealer_hand))
                  IN /\ bankroll' = bankroll + Credit(o, entry[2])
                     /\ session_stats' = Bump(session_stats, Counted(o))
                     /\ cmp_idx' = cmp_idx + 1
                     /\ pc' = IF cmp_idx = Len(ToSettle) THEN "cut"
                              ELSE "settle"
    /\ UNCHANGED <<deckVars, ruleVars, turnVars, callVars, bet, player_hand,
                   dealer_hand, hands_to_compare, rounds, wager, io>>

\* Deck.shuffle(): the cards after the k-th modelled outcome
shuffle(cs, k) == Permute(cs, k)

\* play(): the cut-card check that follows the settlement
CutCardCheck ==
    /\ pc = "cut"
    /\ IF is_cut_card(cards, cut_card_position)
          THEN /\ \E k \in 0..(NumReshuffles - 1) : cards' = shuffle(cards, k)
               /\ running_count' = 0
               /\ op' = "shuffle"
          ELSE UNCHANGED <<cards, running_count, op>>
    /\ pc' = "again"
    /\ UNCHANGED <<number_of_decks, initial_cards, cut_card_position,
                   ruleVars, turnVars, callVars, bankroll, bet, player_hand,
                   dealer_hand, hands_to_compare, session_stats, cmp_idx,
                   rounds, wager, io>>

\* play_again(): the answer to "Play another hand?"
PlayAgain(yes) ==
    /\ pc = "again"
    /\ pc' = IF yes THEN "bet" ELSE "done"
    /\ UNCHANGED <<deckVars, ruleVars, turnVars, callVars, bankroll, bet,
                   player_hand, dealer_hand, hands_to_compare, session_stats,
                   cmp_idx, rounds, wager, io>>

\* every step of a round after the bet
RoundStep ==
    \/ InitialDeal
    \/ DealerBlackjack
    \/ PlayerBlackjack
    \/ BeginPlayerTurn
    \/ Hit
    \/ Stand
    \/ \E move \in BadMoves : InvalidOption(move)
    \/ Double
    \/ DoubleRefused
    \/ Split
    \/ NextSplitHand
    \/ SplitDone
    \/ ReturnToPlay
    \/ RevealHoleCard
    \/ PlayerBusted
    \/ DealerHit
    \/ DealerDone
    \/ CompareHands
    \/ CutCardCheck
    \/ \E yes \in BOOLEAN : PlayAgain(yes)

\* the first MaxRounds rounds after every modelled first shuffle
Next ==
    \/ NotEnoughMoney
    \/ Quit
    \/ (rounds < MaxRounds /\ \E d \in BetInputs : PlaceBet(d))
    \/ (rounds < MaxRounds /\ \E d \in BetInputs \cup BadBets : RejectBet(d))
    \/ RoundStep

Spec == Init /\ [][Next]_vars

\* a session played for as long as the player goes on
LongNext ==
    \/ NotEnoughMoney
    \/ Quit
    \/ \E d \in BetInputs : PlaceBet(d)
    \/ \E d \in BetInputs \cup BadBets : RejectBet(d)
    \/ RoundStep

LongSpec == LongInit /\ [][LongNext]_vars

\* a first shuffle that puts the four eights where a split hand can be
\* split again: two to the player, two drawn by the split
ResplitKey ==
    <<CardOf("8", 0), CardOf("8", 1), CardOf("K", 0), CardOf("Q", 1),
      CardOf("8", 2), CardOf("8", 3)>>

\* sessions at a table with the default rules, the eights among the first
\* shuffles
ResplitInit ==
    SessionInit(DealKeys \cup {ResplitKey}, InitBankrolls, {"3:2"}, {FALSE})

ResplitSpec == ResplitInit /\ [][Next]_vars


(*********************** the Deck on its own *******************************)
\* no session: the profile, the rules and the locals of play() are unused
NoSession ==
    /\ bankroll = 0
    /\ wager = [before |-> 0, amount |-> 0]
    /\ blackjack_payout = "3:2"
    /\ dealer_hits_soft_17 = FALSE
    /\ PlayIdle

\* Deck(number_of_decks) for a valid deck count; the caller has not shuffled
DeckInit ==
    /\ \E n \in MIN_DECKS..MaxDeckCount :
          /\ DeckConstructed(n)
          /\ cards = build_deck(n)
    /\ op = "init"
    /\ pc = "deck"
    /\ NoSession
    /\ arg = <<>>
    /\ ret = NoCall

\* Deck.deal_card(face_up)
deal_card(face_up) ==
    /\ pc = "deck"
    /\ IF cards = <<>>
          THEN /\ ret' = [fn |-> "deal_card", val |-> NoCard]
               /\ op' = "deal_empty"
               /\ UNCHANGED <<cards, running_count>>
          ELSE /\ cards' = Tail(cards)
               /\ running_count' =
                      IF face_up
                         THEN running_count + get_count_value(Head(cards))
                         ELSE running_count
               /\ ret' = [fn |-> "deal_card", val |-> Head(cards)]
               /\ op' = "deal"
    /\ UNCHANGED <<number_of_decks, initial_cards, cut_card_position,
                   ruleVars, turnVars, arg, bankroll, pc, bet, player_hand,
                   dealer_hand, hands_to_compare, session_stats, cmp_idx,
                   rounds, wager, io>>

\* Deck.shuffle()
DeckShuffle ==
    /\ pc = "deck"
    /\ \E k \in 0..(NumReshuffles - 1) : cards' = shuffle(cards, k)
    /\ running_count' = 0
    /\ op' = "shuffle"
    /\ ret' = [fn |-> "shuffle", val |-> NoCard]
    /\ UNCHANGED <<number_of_decks, initial_cards, cut_card_position,
                   ruleVars, turnVars, arg, bankroll, pc, bet, player_hand,
                   dealer_hand, hands_to_compare, session_stats, cmp_idx,
                   rounds, wager, io>>

\* a query of the Deck: fn is called and returns val
DeckReturns(fn, val) ==
    /\ pc = "deck"
    /\ ret' = [fn |-> fn, val |-> val]
    /\ UNCHANGED <<deckVars, ruleVars, turnVars, arg, bankroll, pc, bet,
                   player_hand, dealer_hand, hands_to_compare, session_stats,
                   cmp_idx, rounds, wager, io>>

\* Deck.is_cut_card()
CallIsCutCard ==
    DeckReturns("is_cut_card", is_cut_card(cards, cut_card_position))

DeckNext ==
    \/ \E face_up \in BOOLEAN : deal_card(face_up)
    \/ DeckShuffle

DeckSpec == DeckInit /\ [][DeckNext]_vars

\* a Deck dealt from as play() deals from its shoe: shuffled again only
\* when the cut card is found reached, at most once a round
ShoeInit == DeckInit

\* play(): if self.deck.is_cut_card(): self.deck.shuffle(), once a round
ShuffleAtCutCard ==
    /\ pc = "deck"
    /\ rounds < MaxRounds
    /\ is_cut_card(cards, cut_card_position)
    /\ \E k \in 0..(NumReshuffles - 1) : cards' = shuffle(cards, k)
    /\ running_count' = 0
    /\ op' = "shuffle"
    /\ ret' = [fn |-> "shuffle", val |-> NoCard]
    /\ rounds' = rounds + 1
    /\ UNCHANGED <<number_of_decks, initial_cards, cut_card_position,
                   ruleVars, turnVars, arg, bankroll, pc, bet, player_hand,
                   dealer_hand, hands_to_compare, session_stats, cmp_idx,
                   wager, io>>

ShoeNext ==
    \/ \E face_up \in BOOLEAN : deal_card(face_up)
    \/ ShuffleAtCutCard
    \/ CallIsCutCard

ShoeSpec == ShoeInit /\ [][ShoeNext]_vars

(****************** the valuation routines on their own ********************)
\* one card of every rank
HandCards == 1..13

\* every hand of at most MaxHandLen cards
Hands == UNION {[1..n -> HandCards] : n \in 0..MaxHandLen}

HandInit ==
    /\ arg \in Hands
    /\ ret = NoCall
    /\ pc = "call"
    /\ DeckConstructed(MIN_DECKS)
    /\ cards = <<>>
    /\ op = "init"
    /\ NoSession

\* fn(arg) is called and returns val
Returns(fn, val) ==
    /\ pc = "call"
    /\ ret' = [fn |-> fn, val |-> val]
    /\ UNCHANGED <<deckVars, ruleVars, turnVars, arg, bankroll, pc, bet,
                   player_hand, dealer_hand, hands_to_compare, session_stats,
                   cmp_idx, rounds, wager, io>>

CallHandGetValue == Returns("Hand.get_value", get_value(arg))

CallHandIsSoft == Returns("Hand.is_soft", is_soft(arg))

CallSessionHandValue == Returns("GameSession.hand_value", hand_value(arg))

CallSessionIsSoftHand == Returns("GameSession.is_soft_hand", is_soft_hand(arg))

CallDealerGetHandValue == Returns("Dealer.get_hand_value", get_hand_value(arg))

CallDealerIsSoftHand == Returns("Dealer._is_soft_hand", dealer_is_soft_hand(arg))

HandNext ==
    \/ CallHandGetValue
    \/ CallHandIsSoft
    \/ CallSessionHandValue
    \/ CallSessionIsSoftHand
    \/ CallDealerGetHandValue
    \/ CallDealerIsSoftHand

HandSpec == HandInit /\ [][HandNext]_vars


(********************* the dealer's play on its own ************************)
\* Dealer.should_hit
should_hit(h, hit_on_soft_17) ==
    IF get_hand_value(h) < 17 THEN TRUE
    ELSE IF get_hand_value(h) = 17 /\ hit_on_soft_17
            THEN dealer_is_soft_hand(h)
    ELSE FALSE

\* the two cards a dealer's play starts from
TwoCardHands ==
    {h \in [1..2 -> 1..DeckSize] : h[1] # h[2]}

\* the dealer's play is started on a two-card hand with the rest of the
\* deck in the shoe: GameSession.dealer_turn(dealer_hand), or Dealer.play
\* on a Dealer whose hand is arg and whose hit_on_soft_17 is
\* dealer_hits_soft_17
DealerInit ==
    /\ DeckConstructed(MIN_DECKS)
    /\ op = "deal"
    /\ \E h \in TwoCardHands, k \in 0..(NumReshuffles - 1) :
          /\ cards = shuffle(SelectSeq(build_deck(MIN_DECKS),
                                       LAMBDA c : c \notin Range(h)), k)
          /\ \/ pc = "dealer" /\ dealer_hand = h /\ arg = <<>>
             \/ pc = "dealer_play" /\ dealer_hand = <<>> /\ arg = h
    /\ dealer_hits_soft_17 \in BOOLEAN
    /\ blackjack_payout = "3:2"
    /\ bankroll = 0
    /\ wager = [before |-> 0, amount |-> 0]
    /\ bet = NoBet
    /\ player_hand = <<>>
    /\ hands_to_compare = <<>>
    /\ session_stats = ZeroStats
    /\ hand = <<>>
    /\ turn_bet = NoBet
    /\ can_double = FALSE
    /\ can_split_now = FALSE
    /\ result = NoResult
    /\ stack = <<>>
    /\ cmp_idx = 1
    /\ rounds = 0
    /\ io = NoIo
    /\ ret = NoCall

\* Dealer.play(): one pass of the loop
DealerPlayHit ==
    /\ pc = "dealer_play"
    /\ should_hit(arg, dealer_hits_soft_17)
    /\ LET got == Taken(cards, 1)
       IN /\ cards' = Rest(cards, 1)
          /\ running_count' = CountAfter(running_count, got, {}, 1)
          /\ op' = DealOp(got)
          /\ arg' = Append(arg, got[1])
          /\ IF got[1] = NoCard THEN Crashed ELSE pc' = "dealer_play"
    /\ UNCHANGED <<number_of_decks, initial_cards, cut_card_position,
                   ruleVars, turnVars, ret, bankroll, bet, player_hand,
                   dealer_hand, hands_to_compare, session_stats, cmp_idx,
                   rounds, wager, io>>

\* Dealer.play(): the loop ends and the hand's value is returned
DealerPlayDone ==
    /\ pc = "dealer_play"
    /\ ~should_hit(arg, dealer_hits_soft_17)
    /\ ret' = [fn |-> "Dealer.play", val |-> get_hand_value(arg)]
    /\ pc' = "played"
    /\ UNCHANGED <<deckVars, ruleVars, turnVars, arg, bankroll, bet,
                   player_hand, dealer_hand, hands_to_compare, session_stats,
                   cmp_idx, rounds, wager, io>>

DealerNext ==
    \/ DealerHit
    \/ DealerDone
    \/ DealerPlayHit
    \/ DealerPlayDone

\* both loops run without waiting for anything
DealerSpec == DealerInit /\ [][DealerNext]_vars /\ WF_vars(DealerNext)


(********************* the house edge on its own ***************************)
\* Table.rules is a dict: a key that is missing holds <<>>, a key that is
\* set to v holds <<v>>. Percentages are kept in hundredths of a percent,
\* the deck penetration in hundredths.
Get(rules, key, default) ==
    IF rules[key] = <<>> THEN default ELSE rules[key][1]

Maybe(S) == {<<>>} \cup {<<v>> : v \in S}

\* deck counts a table's rules may name
DeckCounts == {1, 2, 6, MAX_DECKS, 60}

RuleConfigs ==
    [number_of_decks : Maybe(DeckCounts),
     blackjack_payout : Maybe(Payouts),
     dealer_hits_soft_17 : Maybe(BOOLEAN),
     allow_double_down : Maybe(BOOLEAN),
     allow_double_after_split : Maybe(BOOLEAN),
     allow_split : Maybe(BOOLEAN),
     resplit_aces : Maybe(BOOLEAN),
     allow_surrender : Maybe(BOOLEAN),
     deck_penetration : Maybe({40, 75, 90}),
     dealer_peek : Maybe(BOOLEAN),
     insurance_pays : Maybe({"2:1", "3:1"})]

RECURSIVE SumImpacts(_)
SumImpacts(fs) ==
    IF fs = <<>> THEN 0 ELSE Head(fs).impact + SumImpacts(Tail(fs))

Factor(name, impact) == <<[name |-> name, impact |-> impact]>>

\* max(0.1, min(edge, 5.0))
EdgeLimits(edge) ==
    LET capped == IF edge < 500 THEN edge ELSE 500
    IN IF capped > 10 THEN capped ELSE 10

\* Table.calculate_house_edge returning the sum without the edge limits
calculate_house_edge_unlimited(rules) ==
    LET decks == Get(rules, "number_of_decks", 6)
        payout == Get(rules, "blackjack_payout", "3:2")
        penetration == Get(rules, "deck_penetration", 75)
    IN 50
       + (IF decks = 1 THEN -25
          ELSE IF decks = 2 THEN -20
          ELSE IF decks > 6 THEN 2 * (decks - 6) ELSE 0)
       + (IF payout = "6:5" THEN 140
          ELSE IF payout = "1:1" THEN 230 ELSE 0)
       + (IF Get(rules, "dealer_hits_soft_17", FALSE) THEN 20 ELSE 0)
       + (IF ~Get(rules, "allow_double_down", TRUE) THEN 20 ELSE 0)
       + (IF ~Get(rules, "allow_double_after_split", TRUE) THEN 14 ELSE 0)
       + (IF ~Get(rules, "allow_split", TRUE) THEN 40 ELSE 0)
       + (IF ~Get(rules, "resplit_aces", FALSE) THEN 8 ELSE 0)
       + (IF Get(rules, "allow_surrender", FALSE) THEN -8 ELSE 0)
       + (IF penetration > 80 THEN -10
          ELSE IF penetration < 50 THEN 10 ELSE 0)
       + (IF ~Get(rules, "dealer_peek", TRUE) THEN 10 ELSE 0)
       + (IF Get(rules, "insurance_pays", "2:1") # "2:1" THEN 10 ELSE 0)

\* Table.calculate_house_edge
calculate_house_edge(rules) ==
    EdgeLimits(calculate_house_edge_unlimited(rules))

\* Table.get_house_edge_breakdown
get_house_edge_breakdown(rules) ==
    LET decks == Get(rules, "number_of_decks", 6)
        payout == Get(rules, "blackjack_payout", "3:2")
        penetration == Get(rules, "deck_penetration", 75)
        factors ==
            (IF decks = 1 THEN Factor("Single deck", -25)
             ELSE IF decks = 2 THEN Factor("Double deck", -20)
             ELSE IF decks > 6 THEN Factor("decks", 2 * (decks - 6))
             ELSE <<>>)
            \o (IF payout = "6:5" THEN Factor("6:5 blackjack payout", 140)
                ELSE IF payout = "1:1"
                        THEN Factor("1:1 blackjack payout", 230)
                ELSE <<>>)
            \o (IF Get(rules, "dealer_hits_soft_17", FALSE)
                   THEN Factor("Dealer hits soft 17", 20) ELSE <<>>)
            \o (IF ~Get(rules, "allow_double_down", TRUE)
                   THEN Factor("No doubling down", 20) ELSE <<>>)
            \o (IF ~Get(rules, "allow_double_after_split", TRUE)
                   THEN Factor("No doubling after split", 14) ELSE <<>>)
            \o (IF ~Get(rules, "allow_split", TRUE)
                   THEN Factor("No splitting", 40) ELSE <<>>)
            \o (IF ~Get(rules, "resplit_aces", FALSE)
                   THEN Factor("No resplitting aces", 8) ELSE <<>>)
            \o (IF Get(rules, "allow_surrender", FALSE)
                   THEN Factor("Surrender allowed", -8) ELSE <<>>)
            \o (IF penetration > 80
                   THEN Factor("Deep deck penetration", -10)
                ELSE IF penetration < 50
                        THEN Factor("Shallow deck penetration", 10)
                ELSE <<>>)
            \o (IF ~Get(rules, "dealer_peek", TRUE)
                   THEN Factor("No dealer peek", 10) ELSE <<>>)
            \o (IF Get(rules, "insurance_pays", "2:1") # "2:1"
                   THEN Factor("Non-standard insurance", 10) ELSE <<>>)
    IN [base_edge |-> 50,
        factors |-> factors,
        total_edge |-> EdgeLimits(50 + SumImpacts(factors))]

\* a Table with some rules; nothing has been asked of it yet
EdgeInit ==
    /\ arg \in RuleConfigs
    /\ ret = NoCall
    /\ pc = "table"
    /\ DeckConstructed(MIN_DECKS)
    /\ cards = <<>>
    /\ op = "init"
    /\ NoSession

\* fn is called on the table whose rules are arg and returns val
TableReturns(fn, val) ==
    /\ pc = "table"
    /\ ret' = [fn |-> fn, val |-> val]
    /\ UNCHANGED <<deckVars, ruleVars, turnVars, arg, bankroll, pc, bet,
                   player_hand, dealer_hand, hands_to_compare, session_stats,
                   cmp_idx, rounds, wager, io>>

CallCalculateHouseEdge ==
    TableReturns("calculate_house_edge", calculate_house_edge(arg))

CallGetHouseEdgeBreakdown ==
    TableReturns("get_house_edge_breakdown", get_house_edge_breakdown(arg))

EdgeNext ==
    \/ CallCalculateHouseEdge
    \/ CallGetHouseEdgeBreakdown

EdgeSpec == EdgeInit /\ [][EdgeNext]_vars


(********************** construction on its own ****************************)
\* deck counts a caller may ask for
RequestedDecks == (MIN_DECKS - 1)..(MAX_DECKS + 1)

\* the rules GameSession.__init__ reads its settings from
SessionRules ==
    [number_of_decks : Maybe(RequestedDecks),
     blackjack_payout : Maybe(Payouts),
     dealer_hits_soft_17 : Maybe(BOOLEAN),
     deck_penetration : Maybe({40, 75, 90})]

\* Deck.__init__ with no check of the largest deck count
ValidDeckCountNoMax(n) == MIN_DECKS <= n

\* Deck.__init__: the deck count passes both checks
ValidDeckCount(n) == MIN_DECKS <= n /\ n <= MAX_DECKS

\* no Deck object exists
NoShoe ==
    /\ cards = <<>>
    /\ running_count = 0
    /\ number_of_decks = 0
    /\ initial_cards = 0
    /\ cut_card_position = 0
    /\ op = "none"

\* a caller about to construct a Deck (arg: <<>> for None, <<n>> for n) or
\* a GameSession (arg: the table's rules)
NewInit ==
    /\ \/ pc = "new_deck" /\ arg \in Maybe(RequestedDecks)
       \/ pc = "new_session" /\ arg \in SessionRules
    /\ ret = NoCall
    /\ NoShoe
    /\ NoSession

\* Deck.__init__(number_of_decks)
DeckNew ==
    /\ pc = "new_deck"
    /\ ret = NoCall
    /\ LET n == IF arg = <<>> THEN MIN_DECKS ELSE arg[1]
       IN IF ~ValidDeckCount(n)
             THEN /\ ret' = [fn |-> "raise", val |-> n]
                  /\ UNCHANGED deckVars
             ELSE /\ number_of_decks' = n
                  /\ running_count' = 0
                  /\ cards' = build_deck(n)
                  /\ initial_cards' = Len(build_deck(n))
                  /\ cut_card_position' = CutCardPosition(Len(build_deck(n)))
                  /\ op' = "init"
                  /\ ret' = [fn |-> "Deck", val |-> n]
    /\ UNCHANGED <<ruleVars, turnVars, arg, bankroll, pc, bet, player_hand,
                   dealer_hand, hands_to_compare, session_stats, cmp_idx,
                   rounds, wager, io>>

\* GameSession.__init__(profile, table): the settings are read from the
\* table's rules, the Deck is built and shuffled
SessionNew ==
    /\ pc = "new_session"
    /\ ret = NoCall
    /\ blackjack_payout' = Get(arg, "blackjack_payout", "3:2")
    /\ dealer_hits_soft_17' = Get(arg, "dealer_hits_soft_17", FALSE)
    /\ LET n == Get(arg, "number_of_decks", MAX_DECKS)
       IN IF ~ValidDeckCount(n)
             THEN /\ ret' = [fn |-> "raise", val |-> n]
                  /\ UNCHANGED deckVars
             ELSE /\ number_of_decks' = n
                  /\ running_count' = 0
                  /\ \E k \in 0..(NumReshuffles - 1) :
                         cards' = shuffle(build_deck(n), k)
                  /\ initial_cards' = Len(build_deck(n))
                  /\ cut_card_position' = CutCardPosition(Len(build_deck(n)))
                  /\ op' = "shuffle"
                  /\ ret' = [fn |-> "GameSession", val |-> n]
    /\ UNCHANGED <<turnVars, arg, bankroll, pc, bet, player_hand,
                   dealer_hand, hands_to_compare, session_stats, cmp_idx,
                   rounds, wager, io>>

NewNext ==
    \/ DeckNew
    \/ SessionNew

NewSpec == NewInit /\ [][NewNext]_vars


(********************* the strategy advisor on its own *********************)
\* aces still counted as 11 once the while loop has taken 10 off per ace
RECURSIVE AcesLeft(_, _)
AcesLeft(value, aces) ==
    IF value > 21 /\ aces > 0 THEN AcesLeft(value - 10, aces - 1) ELSE aces

\* the pairs of an advisor that always splits aces and nothing else
pair_move_aces_only(pair_rank, dealer_value) ==
    IF pair_rank = "A" THEN "split"
    ELSE IF pair_rank \in {"10", "J", "Q", "K"} THEN "stand"
    ELSE "hit"

\* get_basic_strategy_move: the pairs; "none" where no branch returns
pair_move(pair_rank, dealer_value) ==
    IF pair_rank \in {"A", "8"} THEN "split"
    ELSE IF pair_rank \in {"10", "J", "Q", "K"} THEN "stand"
    ELSE IF pair_rank = "9"
            THEN (IF dealer_value \in {2, 3, 4, 5, 6, 8, 9}
                     THEN "split" ELSE "stand")
    ELSE IF pair_rank = "7"
            THEN (IF dealer_value \in 2..7 THEN "split" ELSE "hit")
    ELSE IF pair_rank = "6"
            THEN (IF dealer_value \in 2..6 THEN "split" ELSE "hit")
    ELSE IF pair_rank = "5"
            THEN (IF dealer_value \in 2..9 THEN "double" ELSE "hit")
    ELSE IF pair_rank = "4"
            THEN (IF dealer_value \in {5, 6} THEN "split" ELSE "hit")
    ELSE IF pair_rank \in {"3", "2"}
            THEN (IF dealer_value \in 2..7 THEN "split" ELSE "hit")
    ELSE "none"

\* the soft hands of an advisor that doubles whatever the hand's length
soft_move_doubles_any_length(value, dealer_value, n) ==
    IF value >= 19 THEN "stand"
    ELSE IF value = 18
            THEN (IF dealer_value \in 2..8 THEN "stand" ELSE "hit")
    ELSE IF value = 17
            THEN (IF dealer_value \in 3..6 THEN "double" ELSE "hit")
    ELSE IF value \in {16, 15}
            THEN (IF dealer_value \in 4..6 THEN "double" ELSE "hit")
    ELSE IF value \in {14, 13}
            THEN (IF dealer_value \in 5..6 THEN "double" ELSE "hit")
    ELSE "hit"

\* get_basic_strategy_move: the soft hands
soft_move(value, dealer_value, n) ==
    IF value >= 19 THEN "stand"
    ELSE IF value = 18
            THEN (IF dealer_value \in 2..8 THEN "stand" ELSE "hit")
    ELSE IF value = 17
            THEN (IF dealer_value \in 3..6 /\ n = 2 THEN "double" ELSE "hit")
    ELSE IF value \in {16, 15}
            THEN (IF dealer_value \in 4..6 /\ n = 2 THEN "double" ELSE "hit")
    ELSE IF value \in {14, 13}
            THEN (IF dealer_value \in 5..6 /\ n = 2 THEN "double" ELSE "hit")
    ELSE "hit"

\* the hard hands of an advisor that never doubles
hard_move_never_doubles(value, dealer_value, n) ==
    IF value >= 17 THEN "stand"
    ELSE IF value >= 13 /\ value <= 16
            THEN (IF dealer_value \in 2..6 THEN "stand" ELSE "hit")
    ELSE IF value = 12
            THEN (IF dealer_value \in 4..6 THEN "stand" ELSE "hit")
    ELSE "hit"

\* get_basic_strategy_move: the hard hands
hard_move(value, dealer_value, n) ==
    IF value >= 17 THEN "stand"
    ELSE IF value >= 13 /\ value <= 16
            THEN (IF dealer_value \in 2..6 THEN "stand" ELSE "hit")
    ELSE IF value = 12
            THEN (IF dealer_value \in 4..6 THEN "stand" ELSE "hit")
    ELSE IF value = 11
            THEN (IF n = 2 THEN "double" ELSE "hit")
    ELSE IF value = 10
            THEN (IF dealer_value \in 2..9 /\ n = 2 THEN "double" ELSE "hit")
    ELSE IF value = 9
            THEN (IF dealer_value \in 3..6 /\ n = 2 THEN "double" ELSE "hit")
    ELSE "hit"

\* get_basic_strategy_move(player_hand, dealer_upcard); cs is player_hand
get_basic_strategy_move(cs, dealer_upcard) ==
    LET value == AdjustAces(SumValues(cs), CountAces(cs))
        aces == AcesLeft(SumValues(cs), CountAces(cs))
        soft == aces > 0 /\ value <= 21
        is_pair == /\ Len(cs) = 2
                   /\ CardRank(cs[1]) = CardRank(cs[2])
        dealer_value == CardValue(dealer_upcard)
    IN IF is_pair
          THEN pair_move(CardRank(cs[1]), dealer_value)
       ELSE IF soft
          THEN soft_move(value, dealer_value, Len(cs))
       ELSE hard_move(value, dealer_value, Len(cs))

\* a hand and the dealer's upcard shown to the advisor
AdviseInit ==
    /\ arg \in [hand : Hands, upcard : HandCards]
    /\ ret = NoCall
    /\ pc = "advise"
    /\ DeckConstructed(MIN_DECKS)
    /\ cards = <<>>
    /\ op = "init"
    /\ NoSession

CallGetBasicStrategyMove ==
    /\ pc = "advise"
    /\ ret' = [fn |-> "get_basic_strategy_move",
               val |-> get_basic_strategy_move(arg.hand, arg.upcard)]
    /\ UNCHANGED <<deckVars, ruleVars, turnVars, arg, bankroll, pc, bet,
                   player_hand, dealer_hand, hands_to_compare, session_stats,
                   cmp_idx, rounds, wager, io>>

AdviseNext == CallGetBasicStrategyMove

AdviseSpec == AdviseInit /\ [][AdviseNext]_vars


(******************************* claims ************************************)
Max(S) == CHOOSE x \in S : \A y \in S : y <= x

\* the first two cards of the dealer form a blackjack
DealerNatural ==
    /\ Len(dealer_hand) >= 2
    /\ ~HasNone(SubSeq(dealer_hand, 1, 2))
    /\ check_blackjack(SubSeq(dealer_hand, 1, 2))

\* the player's hand, as play() holds it, is a two-card 21
PlayerNatural ==
    /\ Len(player_hand) = 2
    /\ player_hand # NoHand
    /\ ~HasNone(player_hand)
    /\ check_blackjack(player_hand)

\* C1: deal_card is never called on a shoe with no cards left.
C1_NeverDealsFromEmptyShoe == op # "deal_empty"

\* C2: after Deck.shuffle the shoe holds number_of_decks*52 cards and the
\* running count is 0.
C2_ShuffleRestoresShoe ==
    op = "shuffle" =>
        /\ cards_left(cards) = number_of_decks * DeckSize
        /\ running_count = 0

\* C3: when a round has ended with the shoe at its cut card, the shoe has
\* been reshuffled by the time the next bet is asked for.
C3_ReshuffledBeforeNextBet ==
    (pc = "bet" /\ rounds > 0 /\ is_cut_card(cards, cut_card_position))
        => op = "shuffle"

\* the best total of a hand: the largest total not above 21 over all the
\* ways of counting each ace as 1 or 11, or the all-aces-as-1 total
BestTotal(h) ==
    LET low == SumNonAces(h) + CountAces(h)
        fits == {t \in {low + (10 * k) : k \in 0..CountAces(h)} : t <= 21}
    IN IF fits # {} THEN Max(fits) ELSE low

\* every ace as 11, then 10 off per ace while the total is above 21
RECURSIVE NaiveTotal(_, _)
NaiveTotal(total, aces) ==
    IF total > 21 /\ aces > 0 THEN NaiveTotal(total - 10, aces - 1) ELSE total

\* C4: Hand.get_value returns the best total of the hand, which is the
\* total obtained by counting every ace as 11 and taking 10 off per ace
\* while the total exceeds 21.
C4_GetValueIsBestTotal ==
    ret.fn = "Hand.get_value" =>
        /\ ret.val = BestTotal(arg)
        /\ ret.val = NaiveTotal(SumNonAces(arg) + (11 * CountAces(arg)),
                                CountAces(arg))

\* a hand is soft: it has an ace and its all-aces-as-1 total plus 10 is at
\* most 21
SoftHand(h) ==
    /\ \E i \in 1..Len(h) : CardRank(h[i]) = "A"
    /\ SumNonAces(h) + CountAces(h) + 10 <= 21

\* C5: each of Hand.is_soft, GameSession.is_soft_hand and
\* Dealer._is_soft_hand returns true exactly for the soft hands.
C5_SoftTestsAgreeWithDefinition ==
    ret.fn \in {"Hand.is_soft", "GameSession.is_soft_hand",
                "Dealer._is_soft_hand"}
        => (ret.val <=> SoftHand(arg))

\* a round without blackjack, split or double has been settled and the
\* player's total beats the dealer's
PlainWinSettled ==
    /\ pc = "cut"
    /\ hands_to_compare = <<>>
    /\ Truthy(player_hand)
    /\ bet = wager.amount
    /\ hand_value(player_hand) <= 21
    /\ hand_value(dealer_hand) < hand_value(player_hand)

\* C6 as stated: after such a win the bankroll is the bankroll before the
\* bet plus twice the bet.
C6_WinIsPreBetPlusTwiceBet ==
    PlainWinSettled => bankroll = wager.before + (2 * wager.amount)

\* C6 as amended: after such a win the bankroll is the bankroll before the
\* bet plus the bet (the stake taken at bet time comes back with equal
\* winnings).
C6_WinIsPreBetPlusBet ==
    PlainWinSettled => bankroll = wager.before + wager.amount

\* a 20 has beaten a dealer 19
C6_Witness ==
    /\ PlainWinSettled
    /\ hand_value(player_hand) = 20
    /\ hand_value(dealer_hand) = 19
    /\ bankroll = wager.before + wager.amount

\* what settling a hand of value pv and bet b against a dealer value dv
\* adds to the bankroll
Owed(pv, dv, b) ==
    IF pv <= 21 /\ (dv > 21 \/ pv > dv) THEN 2 * b
    ELSE IF pv <= 21 /\ pv = dv THEN b
    ELSE 0

\* C7: settling a hand adds twice its bet to the bankroll when the dealer
\* busts or the unbusted player total is higher, its bet when the totals
\* are equal, and nothing when the player busted (whatever the dealer has)
\* or the dealer total is higher; a lone busted hand is settled with nothing,
\* and a push of the round's only hand brings the bankroll back to its value
\* before the bet.
C7_SettlementCredits ==
    [][/\ (pc = "settle" /\ pc' # "crashed") =>
             bankroll' - bankroll =
                 Owed(hand_value(ToSettle[cmp_idx][1]),
                      hand_value(dealer_hand), ToSettle[cmp_idx][2])
       /\ (pc = "process" /\ pc' = "cut") => bankroll' = bankroll
       /\ (/\ pc = "settle"
           /\ hands_to_compare = <<>>
           /\ hand_value(player_hand) = hand_value(dealer_hand)) =>
             bankroll' = wager.before]_vars

\* a busted split hand has been settled with nothing against a dealer who
\* busted too
C7_Witness ==
    /\ pc \in {"settle", "cut"}
    /\ hands_to_compare # <<>>
    /\ cmp_idx = Len(hands_to_compare) + 1
    /\ hand_value(dealer_hand) > 21
    /\ \E i \in 1..Len(hands_to_compare) :
          /\ hands_to_compare[i][1] # NoHand
          /\ hand_value(hands_to_compare[i][1]) > 21

\* what a player blackjack wins on a bet of b at the table's ratio
RatioWinnings(ratio, b) ==
    IF ratio = "3:2" THEN (3 * b) \div 2
    ELSE IF ratio = "6:5" THEN (6 * b) \div 5
    ELSE b

\* C8: a player blackjack against no dealer blackjack ends the round with
\* no player turn and no dealer draw, the bankroll being the bankroll
\* before the bet plus the winnings at the configured ratio.
C8_BlackjackPaidAtConfiguredRatio ==
    (pc = "again" /\ PlayerNatural /\ ~DealerNatural) =>
        /\ Len(dealer_hand) = 2
        /\ bankroll =
               wager.before + RatioWinnings(blackjack_payout, wager.amount)

\* C9: a round in which the dealer's two cards are a blackjack is never in
\* the player's turn, the dealer's turn or the settlement; it ends with the
\* dealer holding two cards, the bankroll back at its value before the bet
\* when the player has a blackjack too, and down by the bet otherwise.
C9_DealerBlackjackEndsRound ==
    (DealerNatural /\ pc \notin {"bet", "deal", "done", "quit", "broke"}) =>
        /\ pc \in {"check", "again"}
        /\ Len(dealer_hand) = 2
        /\ pc = "again" =>
               bankroll = IF PlayerNatural THEN wager.before
                          ELSE wager.before - wager.amount

\* a round has ended on a dealer blackjack against a player blackjack
C9_Witness ==
    /\ pc = "again"
    /\ DealerNatural
    /\ PlayerNatural
    /\ bankroll = wager.before

\* C10: a split that goes through leaves two hands with no card in common,
\* made of the pair's two cards and the two cards taken off the shoe: the
\* first hand is the pair's first card and the first card dealt, the second
\* hand the pair's second card and the second card dealt.
C10_SplitPartitionsCards ==
    [][(pc = "turn" /\ Len(stack') = Len(stack) + 1 /\ pc' # "crashed"
           /\ ~HasNone(Head(stack').hand2)) =>
          LET hand1 == hand'
              hand2 == Head(stack').hand2
          IN /\ Range(hand1) \cap Range(hand2) = {}
             /\ Range(hand1) \cup Range(hand2)
                    = {hand[1], hand[2], cards[1], cards[2]}
             /\ Cardinality(Range(hand1) \cup Range(hand2)) = 4
             /\ hand1 = <<hand[1], cards[1]>>
             /\ hand2 = <<hand[2], cards[2]>>
             /\ cards' = SubSeq(cards, 3, Len(cards))
             /\ Range(cards') \cap (Range(hand1) \cup Range(hand2)) = {}]_vars

\* the first hand of a split is about to be played, the second is waiting
C10_Witness ==
    /\ pc = "turn"
    /\ stack # <<>>
    /\ Head(stack).idx = 1
    /\ Len(hand) = 2
    /\ Len(Head(stack).hand2) = 2
    /\ Range(hand) \cap Range(Head(stack).hand2) = {}

\* C11: a double or a split goes through only on a hand of two cards, a
\* split only on two cards of equal rank; once a hand has been hit, asking
\* to double or to split it is answered "Invalid option." and changes
\* neither the hand, the bet, the bankroll nor the shoe.
C11_DoubleSplitOnlyOnTwoCards ==
    [][/\ (pc = "turn" /\ turn_bet' # turn_bet) => Len(hand) = 2
       /\ (pc = "turn" /\ Len(stack') > Len(stack)) =>
             /\ Len(hand) = 2
             /\ CardRank(hand[1]) = CardRank(hand[2])
       /\ (pc = "turn" /\ Len(hand) > 2 /\ io' # io
              /\ io'.input \in {"d", "p"}) =>
             /\ io'.output = "Invalid option."
             /\ pc' = "turn"
             /\ UNCHANGED <<hand, turn_bet, bankroll, cards, stack>>]_vars

\* a hand that was hit has just been refused a double
C11_Witness ==
    /\ pc = "turn"
    /\ Len(hand) > 2
    /\ io = Io("d", "Invalid option.")

\* the dealer's drawing rule: below 17, or a soft 17 when soft 17 is hit
MustDraw(h, hits_soft_17) ==
    \/ BestTotal(h) < 17
    \/ (hits_soft_17 /\ BestTotal(h) = 17 /\ SoftHand(h))

\* the hand the dealer's play is working on
DealerCards == IF pc \in {"dealer_play", "played"} THEN arg ELSE dealer_hand

\* a step of the dealer's play follows the drawing rule
DealerStepFollowsRule ==
    pc \in {"dealer", "dealer_play"} =>
        /\ MustDraw(DealerCards, dealer_hits_soft_17) =>
               /\ pc' = pc
               /\ cards' = Tail(cards)
               /\ DealerCards' = Append(DealerCards, Head(cards))
        /\ ~MustDraw(DealerCards, dealer_hits_soft_17) =>
               /\ pc' \in {"settle", "played"}
               /\ cards' = cards
               /\ DealerCards' = DealerCards

\* C12: the dealer's play (GameSession.dealer_turn and Dealer.play) draws
\* a card exactly when its value is below 17, or is a soft 17 and soft 17
\* is hit; when it has stopped the value is at least 17 and, where soft 17
\* is hit, the hand is no soft 17; with cards in the shoe it always stops.
C12_DealerDrawsToSeventeen ==
    /\ [][DealerStepFollowsRule]_vars
    /\ [](pc \in {"settle", "played"} =>
             /\ BestTotal(DealerCards) >= 17
             /\ ~MustDraw(DealerCards, dealer_hits_soft_17)
             /\ pc = "played" => ret.val = BestTotal(arg))
    /\ (pc \in {"dealer", "dealer_play"}) ~> (pc \in {"settle", "played"})

\* a dealer who hits soft 17 started from a soft 17, drew and has stopped
C12_Witness ==
    /\ pc \in {"settle", "played"}
    /\ dealer_hits_soft_17
    /\ Len(DealerCards) > 2
    /\ SoftHand(SubSeq(DealerCards, 1, 2))
    /\ BestTotal(SubSeq(DealerCards, 1, 2)) = 17

\* the Hi-Lo values of a set of cards added up: one for each card from 2
\* to 6, minus one for each ten, face card and ace
HiLoSum(S) ==
    Cardinality({c \in S : (c - 1) % 13 < 5})
        - Cardinality({c \in S : (c - 1) % 13 >= 8})

\* the cards that have left the shoe
Dealt == (1..(number_of_decks * 52)) \ Range(cards)

\* the dealer's second card lies face down
HoleCardHidden == pc \in {"check", "turn", "ret", "process"}

\* C13: until the first cut-card reshuffle the running count is the sum of
\* the Hi-Lo values of every card dealt, the dealer's hole card left out
\* while it lies face down and counted once from its reveal on, whichever
\* way the round goes.
C13_RunningCountTracksSeenCards ==
    (pc \notin {"deck", "call", "dealer_play", "played"}
        /\ cards_left(cards) > cut_card_position) =>
        running_count =
            HiLoSum(Dealt) - (IF HoleCardHidden
                                 THEN get_count_value(dealer_hand[2]) ELSE 0)

\* a second round has ended, its hole card a ten or an ace, and the count
\* holds every card dealt
C13_Witness ==
    /\ pc = "again"
    /\ rounds = 2
    /\ get_count_value(dealer_hand[2]) = -1
    /\ Len(player_hand) > 2
    /\ running_count = HiLoSum(Dealt)

\* the call ended with an exception raised to the caller
Raised(r) == r.fn = "raise"

\* C14: deal_card on a shoe with no cards left raises an error to its
\* caller; it returns nothing that could be put in a hand.
C14_EmptyShoeRaises ==
    op = "deal_empty" =>
        /\ Raised(ret)
        /\ ret.val # NoCard
        /\ cards = <<>>

\* a table none of whose rules is set
NoRules ==
    [number_of_decks |-> <<>>, blackjack_payout |-> <<>>,
     dealer_hits_soft_17 |-> <<>>, allow_double_down |-> <<>>,
     allow_double_after_split |-> <<>>, allow_split |-> <<>>,
     resplit_aces |-> <<>>, allow_surrender |-> <<>>,
     deck_penetration |-> <<>>, dealer_peek |-> <<>>,
     insurance_pays |-> <<>>]

\* the default configuration spelled out: 6 decks, 3:2, the dealer stands
\* on soft 17, double, double after split, split and resplit of aces
\* allowed, no surrender, 0.75 penetration, dealer peek, insurance 2:1
DefaultRules ==
    [number_of_decks |-> <<6>>, blackjack_payout |-> <<"3:2">>,
     dealer_hits_soft_17 |-> <<FALSE>>, allow_double_down |-> <<TRUE>>,
     allow_double_after_split |-> <<TRUE>>, allow_split |-> <<TRUE>>,
     resplit_aces |-> <<TRUE>>, allow_surrender |-> <<FALSE>>,
     deck_penetration |-> <<75>>, dealer_peek |-> <<TRUE>>,
     insurance_pays |-> <<"2:1">>]

\* C15: the house edge of the default configuration, spelled out or left
\* to the defaults, is 0.5%; with only the payout changed to 6:5 it is
\* 1.9%, with only the deck count changed to 1 it is 0.25%.
C15_DefaultHouseEdge ==
    ret.fn = "calculate_house_edge" =>
        \A base \in {DefaultRules, NoRules} :
            /\ arg = base => ret.val = 50
            /\ arg = [base EXCEPT !.blackjack_payout = <<"6:5">>] =>
                   ret.val = 190
            /\ arg = [base EXCEPT !.number_of_decks = <<1>>] => ret.val = 25

\* the closed interval [0.1, 5.0], in hundredths of a percent
Clamped(x) == IF x < 10 THEN 10 ELSE IF x > 500 THEN 500 ELSE x

\* the impacts the estimator may list under each name, unclamped
ListedImpact(rules, name) ==
    CASE name = "Single deck" -> -25
      [] name = "Double deck" -> -20
      [] name = "decks" -> 2 * (Get(rules, "number_of_decks", 6) - 6)
      [] name = "6:5 blackjack payout" -> 140
      [] name = "1:1 blackjack payout" -> 230
      [] name = "Dealer hits soft 17" -> 20
      [] name = "No doubling down" -> 20
      [] name = "No doubling after split" -> 14
      [] name = "No splitting" -> 40
      [] name = "No resplitting aces" -> 8
      [] name = "Surrender allowed" -> -8
      [] name = "Deep deck penetration" -> -10
      [] name = "Shallow deck penetration" -> 10
      [] name = "No dealer peek" -> 10
      [] name = "Non-standard insurance" -> 10

\* C16: for every rule configuration calculate_house_edge and the
\* breakdown's total_edge are equal, both are the base 0.5 plus the impacts
\* of exactly the factors the breakdown lists, limited once on the final
\* sum to [0.1, 5.0]; no single factor is limited.
C16_EdgeMatchesBreakdown ==
    /\ ret.fn = "calculate_house_edge" =>
           /\ ret.val = get_house_edge_breakdown(arg).total_edge
           /\ ret.val =
                Clamped(50 + SumImpacts(get_house_edge_breakdown(arg).factors))
           /\ ret.val \in 10..500
    /\ ret.fn = "get_house_edge_breakdown" =>
           /\ ret.val.total_edge = calculate_house_edge(arg)
           /\ ret.val.total_edge = Clamped(50 + SumImpacts(ret.val.factors))
           /\ ret.val.total_edge \in 10..500
           /\ ret.val.base_edge = 50
           /\ \A i \in DOMAIN ret.val.factors :
                  ret.val.factors[i].impact =
                      ListedImpact(arg, ret.val.factors[i].name)

\* a table whose factors sum past 5.0: the total is limited, the 60-deck
\* factor is listed at its full 1.08
C16_Witness ==
    /\ ret.fn = "get_house_edge_breakdown"
    /\ ret.val.total_edge = 500
    /\ 50 + SumImpacts(ret.val.factors) > 500
    /\ \E i \in DOMAIN ret.val.factors :
           ret.val.factors[i] = [name |-> "decks", impact |-> 108]

\* bankroll, bets, hands and shoe are exactly as before the request
NothingTaken ==
    UNCHANGED <<bankroll, bet, turn_bet, hand, player_hand, dealer_hand,
                hands_to_compare, stack, cards, running_count>>

\* a bet is either taken whole or not at all
BetAppliesOrNot ==
    pc = "bet" =>
        \/ NothingTaken
        \/ /\ MIN_BET * 10 <= bet' /\ bet' <= MAX_BET * 10
           /\ bet' <= bankroll
           /\ bankroll' = bankroll - bet'
           /\ UNCHANGED <<hand, player_hand, dealer_hand, hands_to_compare,
                          stack, cards>>

\* a double is either done whole (bet taken, bet doubled, one card dealt
\* to the hand) or not at all
DoubleAppliesOrNot ==
    (pc = "turn" /\ io'.input = "d") =>
        /\ (bankroll < turn_bet \/ Len(hand) # 2) => NothingTaken
        /\ \/ NothingTaken /\ pc' = "turn"
           \/ /\ bankroll' = bankroll - turn_bet
              /\ turn_bet' = 2 * turn_bet
              /\ hand' = Append(hand, Taken(cards, 1)[1])
              /\ cards' = Rest(cards, 1)
              /\ UNCHANGED <<bet, stack, hands_to_compare, dealer_hand>>

\* a split is either done whole (second bet taken, two cards dealt, the
\* pair parted into two hands at the same bet) or not at all
SplitAppliesOrNot ==
    (pc = "turn" /\ io'.input = "p") =>
        /\ (bankroll < turn_bet \/ Len(hand) # 2
              \/ CardRank(hand[1]) # CardRank(hand[Len(hand)])) =>
               NothingTaken
        /\ \/ NothingTaken
           \/ /\ bankroll' = bankroll - turn_bet
              /\ turn_bet' = turn_bet
              /\ cards' = Rest(cards, 2)
              /\ stack' = <<[hand2 |-> <<hand[2], Taken(cards, 2)[2]>>,
                             bet |-> turn_bet, idx |-> 1]>> \o stack
              /\ pc' = "turn" => hand' = <<hand[1], Taken(cards, 2)[1]>>
              /\ UNCHANGED <<bet, hands_to_compare, dealer_hand>>

\* C17: placing a bet, doubling down and splitting each either apply
\* completely or leave bankroll, bets, hands and shoe exactly as before; a
\* bet outside the limits or above the bankroll, a double or split the
\* bankroll does not cover, a split of a non-pair and a double on a hand
\* that does not have two cards take nothing.
C17_AppliesWhollyOrNotAtAll ==
    [][BetAppliesOrNot /\ DoubleAppliesOrNot /\ SplitAppliesOrNot]_vars

\* a double was asked for on a two-card hand whose bet the bankroll does
\* not cover, and was refused
C17_Witness ==
    /\ pc = "turn"
    /\ io = Io("d", "Not enough bankroll to double down.")
    /\ Len(hand) = 2
    /\ bankroll < turn_bet
    /\ bankroll = wager.before - wager.amount

\* what the player reads when a double or a split is refused
Refusals ==
    {"Invalid option.", "Not enough bankroll to double down.",
     "Not enough bankroll to split."}

\* C18: a double or a split that is refused leaves the hand awaiting
\* action with the same cards and bet; the refusal never ends the hand's
\* turn.
C18_RefusalKeepsTurn ==
    [][(pc = "turn" /\ io'.input \in {"d", "p"} /\ io'.output \in Refusals) =>
           /\ pc' = "turn"
           /\ UNCHANGED <<hand, turn_bet, bankroll>>]_vars

\* the deck count the constructor being called works with
RequestedCount ==
    IF pc = "new_deck" THEN (IF arg = <<>> THEN 1 ELSE arg[1])
    ELSE Get(arg, "number_of_decks", 8)

\* C19: constructing a shoe, or a GameSession, with a deck count below 1
\* or above 8 fails with an error and builds no shoe; with a count in range
\* the new shoe holds number_of_decks*52 cards, each card of each deck
\* once, and a running count of 0.
C19_DeckCountValidated ==
    (pc \in {"new_deck", "new_session"} /\ ret # NoCall) =>
        IF RequestedCount < 1 \/ RequestedCount > 8
           THEN /\ Raised(ret)
                /\ NoShoe
           ELSE /\ ~Raised(ret)
                /\ number_of_decks = RequestedCount
                /\ Len(cards) = number_of_decks * 52
                /\ Range(cards) = 1..(number_of_decks * 52)
                /\ initial_cards = number_of_decks * 52
                /\ running_count = 0

\* a session asked for at a table of nine decks: refused, no shoe
C19_Witness ==
    /\ pc = "new_session"
    /\ Raised(ret)
    /\ arg.number_of_decks = <<9>>
    /\ cards = <<>>

\* the hand's best total is t and no ace in it counts 11
HardTotal(h, t) == BestTotal(h) = t /\ ~SoftHand(h)

PairOfEights(h) == Len(h) = 2 /\ CardRank(h[1]) = "8" /\ CardRank(h[2]) = "8"

\* two-card hard 11 against any upcard: double; soft 18 against a 9: hit
DoubleElevenHitSoftEighteen ==
    /\ (Len(arg.hand) = 2 /\ HardTotal(arg.hand, 11)) => ret.val = "double"
    /\ (BestTotal(arg.hand) = 18 /\ SoftHand(arg.hand)
          /\ CardValue(arg.upcard) = 9) => ret.val = "hit"

\* C20 as claimed: every hard 16 against an upcard of value 10 is a hit;
\* every two-card hard 11 against any upcard is a double; every soft 18
\* against a 9 is a hit.
C20_AdvisorEveryHardSixteenHits ==
    ret.fn = "get_basic_strategy_move" =>
        /\ (HardTotal(arg.hand, 16) /\ CardValue(arg.upcard) = 10) =>
               ret.val = "hit"
        /\ DoubleElevenHitSoftEighteen

\* C20 amended: every hard 16 other than a pair of eights against an
\* upcard of value 10 is a hit, a pair of eights is a split; every
\* two-card hard 11 against any upcard is a double; every soft 18 against a
\* 9 is a hit.
C20_AdvisorHardSixteenButEightsHits ==
    ret.fn = "get_basic_strategy_move" =>
        /\ (HardTotal(arg.hand, 16) /\ CardValue(arg.upcard) = 10) =>
               ret.val = IF PairOfEights(arg.hand) THEN "split" ELSE "hit"
        /\ DoubleElevenHitSoftEighteen

\* a three-card hard 16 with an ace counted as 1, shown against a king
C20_Witness ==
    /\ ret = [fn |-> "get_basic_strategy_move", val |-> "hit"]
    /\ Len(arg.hand) = 3
    /\ HardTotal(arg.hand, 16)
    /\ CountAces(arg.hand) = 1
    /\ CardRank(arg.upcard) = "K"

\* the hand is two cards of one rank, as dealt
AsDealtPair(h) == Len(h) = 2 /\ CardRank(h[1]) = CardRank(h[2])

\* C21: for an as-dealt pair the pair table comes first: a pair of aces
\* and a pair of eights are split against every upcard, whatever the soft
\* and hard tables say of a soft 12 and a hard 16; a pair of tens, jacks,
\* queens or kings is never split.
C21_PairTableComesFirst ==
    (ret.fn = "get_basic_strategy_move" /\ AsDealtPair(arg.hand)) =>
        /\ CardRank(arg.hand[1]) \in {"A", "8"} => ret.val = "split"
        /\ CardRank(arg.hand[1]) \in {"10", "J", "Q", "K"} =>
               ret.val # "split"

\* a pair of eights shown against an ace, where a hard 16 would be hit
C21_Witness ==
    /\ ret = [fn |-> "get_basic_strategy_move", val |-> "split"]
    /\ AsDealtPair(arg.hand)
    /\ CardRank(arg.hand[1]) = "8"
    /\ CardRank(arg.upcard) = "A"
    /\ hard_move(16, 11, 2) = "hit"

\* the total and the upcard are among those the tables double on
WouldDouble(h, upcard) ==
    LET total == BestTotal(h)
        dv == CardValue(upcard)
    IN IF SoftHand(h)
          THEN \/ total = 17 /\ dv \in 3..6
               \/ total \in {15, 16} /\ dv \in 4..6
               \/ total \in {13, 14} /\ dv \in 5..6
          ELSE \/ total = 11
               \/ total = 10 /\ dv \in 2..9
               \/ total = 9 /\ dv \in 3..6

\* C22: the advisor answers hit, stand, double, split or surrender;
\* 'double' only for a hand of exactly two cards, 'split' only for a
\* two-card pair of one rank; a hand of three or more cards whose total and
\* upcard would give 'double' gets 'hit'.
C22_AdviceIsAMoveTheHandAllows ==
    ret.fn = "get_basic_strategy_move" =>
        /\ ret.val \in {"hit", "stand", "double", "split", "surrender"}
        /\ ret.val = "double" => Len(arg.hand) = 2
        /\ ret.val = "split" => AsDealtPair(arg.hand)
        /\ (Len(arg.hand) >= 3 /\ WouldDouble(arg.hand, arg.upcard)) =>
               ret.val = "hit"

\* a three-card soft 17 shown against a five: hit, not double
C22_Witness ==
    /\ ret = [fn |-> "get_basic_strategy_move", val |-> "hit"]
    /\ Len(arg.hand) = 3
    /\ SoftHand(arg.hand)
    /\ BestTotal(arg.hand) = 17
    /\ CardRank(arg.upcard) = "5"

\* a double was accepted in this step
Doubles == pc = "turn" /\ io'.output = "You doubled down!"

\* what an accepted double does, and where a doubled hand goes
DoubleIsFinal ==
    /\ Doubles =>
           /\ bankroll' = bankroll - turn_bet
           /\ turn_bet' = 2 * turn_bet
           /\ cards # <<>>
           /\ hand' = Append(hand, Head(cards))
           /\ cards' = Tail(cards)
           /\ pc' = "ret"
           /\ result' = [hand |-> hand', bet |-> 2 * turn_bet]
    /\ pc' = "turn" => turn_bet' = wager.amount
    /\ (pc = "ret" /\ stack = <<>>) =>
           /\ player_hand' = result.hand
           /\ bet' = result.bet
    /\ (pc = "ret" /\ stack # <<>> /\ result # NoResult) =>
           hands_to_compare' =
               Append(hands_to_compare, <<result.hand, result.bet>>)

\* C23: an accepted double takes one more original bet from the bankroll,
\* doubles the hand's bet, deals exactly one card to the hand and ends the
\* hand's turn: no hand awaiting a move carries a doubled bet, and the hand
\* goes to settlement with the doubled bet.
C23_DoubleDealsOneCardAndEndsTurn == [][DoubleIsFinal]_vars

\* the place of each position of play() in the order of a round's phases:
\* bet, deal, blackjack check, player turns, dealer turn, settlement
PhaseRank(p) ==
    CASE p = "bet" -> 1
      [] p = "deal" -> 2
      [] p = "check" -> 3
      [] p \in {"turn", "ret"} -> 4
      [] p = "process" -> 5
      [] p = "dealer" -> 6
      [] p = "settle" -> 7
      [] p = "cut" -> 8
      [] p = "again" -> 9

\* the round or the session is over
Stopped(p) == p \in {"done", "quit", "broke", "crashed"}

PhasesInOrder ==
    /\ (pc' # pc /\ ~Stopped(pc')) =>
           \/ PhaseRank(pc') >= PhaseRank(pc)
           \/ pc = "again" /\ pc' = "bet"
    \* the dealer draws only in the dealer's turn, every hand played out
    /\ (Len(dealer_hand) >= 2 /\ dealer_hand' # dealer_hand
          /\ Len(dealer_hand') > Len(dealer_hand)) => pc = "dealer"
    /\ pc = "dealer" =>
           /\ stack = <<>>
           /\ UNCHANGED <<hand, player_hand, hands_to_compare, bet>>
    \* a hand is settled against the dealer only once the dealer stands
    /\ pc = "settle" =>
           /\ ~MustDraw(dealer_hand, dealer_hits_soft_17)
           /\ stack = <<>>
    /\ (session_stats'.hands_played # session_stats.hands_played
          \/ bankroll' > bankroll) =>
           pc \in {"check", "process", "settle"}
    /\ pc \in {"settle", "cut", "again"} =>
           UNCHANGED <<dealer_hand, hand, player_hand, hands_to_compare>>

\* C24: within a round the phases come in the order bet, deal, blackjack
\* check, player turns, dealer turn, settlement; the dealer draws no card
\* until every hand of the round, split hands included, is played out, and
\* no hand is settled while the dealer has yet to draw.
C24_PhasesInOrder == [][PhasesInOrder]_vars

\* the dealer has drawn after both hands of a split were played
C24_Witness ==
    /\ pc = "dealer"
    /\ Len(hands_to_compare) = 2
    /\ Len(dealer_hand) > 2
    /\ stack = <<>>

\* how many cards of the shoe as built are no longer in it
DealtCount == Cardinality(Dealt)

\* C25: is_cut_card() is false while fewer than initial_cards -
\* cut_card_position cards have been dealt and true from the moment that
\* many have been, that is exactly when cards_left() <= cut_card_position;
\* cards_left() is the cards not yet dealt and stays between 0 and
\* number_of_decks*52.
C25_CutCardAfterPenetration ==
    /\ 0 <= cards_left(cards)
    /\ cards_left(cards) <= number_of_decks * 52
    /\ ret.fn = "is_cut_card" =>
           /\ ret.val <=> DealtCount >= initial_cards - cut_card_position
           /\ ret.val <=> cards_left(cards) <= cut_card_position
           /\ cards_left(cards) = (number_of_decks * 52) - DealtCount

\* the card that brings the shoe down to the cut card has just been dealt
\* and is_cut_card() answers true
C25_Witness ==
    /\ ret = [fn |-> "is_cut_card", val |-> TRUE]
    /\ DealtCount = initial_cards - cut_card_position
    /\ cut_card_position > 0

\* the rule values Table.calculate_house_edge works from, in percent for
\* the penetration
EstimatorDecks(rules) == Get(rules, "number_of_decks", 6)

EstimatorPenetration(rules) == Get(rules, "deck_penetration", 75)

EstimatorHitsSoft17(rules) == Get(rules, "dealer_hits_soft_17", FALSE)

\* C26: a session built at a table has a shoe of the deck count and the
\* cut-card fraction the house-edge estimator uses for that table, and its
\* dealer hits soft 17 exactly when the estimator applies that factor, also
\* when a rule key is absent and its default is used.
C26_SessionPlaysTheEstimatedRules ==
    (pc = "new_session" /\ ret.fn = "GameSession") =>
        /\ number_of_decks = EstimatorDecks(arg)
        /\ cut_card_position =
               (initial_cards * (100 - EstimatorPenetration(arg))) \div 100
        /\ dealer_hits_soft_17 = EstimatorHitsSoft17(arg)

\* the cards of the hands recorded for settlement
EntryCards(i) == Range(hands_to_compare[i][1])

\* every recorded entry is a hand of cards with its bet, no two entries
\* share a card
EntriesAreHands ==
    \A i \in 1..Len(hands_to_compare) :
        /\ hands_to_compare[i][1] # NoHand
        /\ Len(hands_to_compare[i][1]) >= 2
        /\ hands_to_compare[i][2] # NoBet
        /\ hands_to_compare[i][2] > 0
        /\ \A j \in 1..Len(hands_to_compare) :
               i # j => EntryCards(i) \cap EntryCards(j) = {}

\* a split turn is followed by the settlement of each entry in turn, one
\* hand played per entry, and the round goes on once all are settled
SplitSettlesEachOnce ==
    /\ (pc = "ret" /\ stack = <<>> /\ hands_to_compare # <<>>) =>
           pc' = "process"
    /\ (pc = "settle" /\ hands_to_compare # <<>>) =>
           /\ pc' # "crashed"
           /\ session_stats'.hands_played = session_stats.hands_played + 1
           /\ cmp_idx' = cmp_idx + 1
           /\ pc' = "cut" <=> cmp_idx = Len(hands_to_compare)

\* C27: after a player turn with any number of splits, a split of a split
\* hand included, hands_to_compare holds one (hand, bet) entry for each
\* final sub-hand, every entry a hand of cards with a bet and never an
\* empty placeholder, and each is settled against the dealer exactly once.
C27_OneEntryPerSplitHand ==
    /\ [](pc \in {"process", "dealer", "settle"} => EntriesAreHands)
    /\ [][SplitSettlesEachOnce]_vars

\* money leaves the bankroll only at the bet prompt or on a double or a
\* split, and never more than the bankroll holds; the blackjack branches
\* and the settlement never lower it
DeductionsCovered ==
    /\ bankroll' < bankroll =>
           /\ pc \in {"bet", "turn"}
           /\ bankroll - bankroll' \in {bet', turn_bet}
           /\ bankroll - bankroll' <= bankroll
    /\ pc \in {"check", "settle"} => bankroll' >= bankroll

\* C28: the bankroll of a session started with a non-negative bankroll is
\* never negative: a bet, a double and a split are accepted only when the
\* bankroll covers what they take, and settlement only adds to it.
C28_BankrollNeverNegative ==
    /\ [](bankroll >= 0)
    /\ [][DeductionsCovered]_vars

\* the last dollar went on a split and the hand then lost: the bankroll
\* is empty after settlement
C28_Witness ==
    /\ pc = "cut"
    /\ bankroll = 0
    /\ Len(hands_to_compare) = 2

\* hands with an outcome counted so far
OutcomesCounted(stats) ==
    stats.hands_won + stats.hands_lost + stats.pushes

\* the round is over: its hands are settled and the next bet not yet taken
RoundOver == pc \in {"cut", "again", "bet", "done", "broke"}

CountersAddUp ==
    /\ session_stats.hands_played = OutcomesCounted(session_stats)
    /\ session_stats.busts <= session_stats.hands_lost
    /\ session_stats.blackjacks <= session_stats.hands_won

\* a step that settles a hand counts it once as played and once under
\* one outcome; no other step touches these counters
SettlesCountOnce ==
    /\ session_stats'.hands_played \in
           {session_stats.hands_played, session_stats.hands_played + 1}
    /\ OutcomesCounted(session_stats') - OutcomesCounted(session_stats) =
           session_stats'.hands_played - session_stats.hands_played
    /\ \A f \in {"hands_won", "hands_lost", "pushes", "busts", "blackjacks"} :
           session_stats'[f] >= session_stats[f]
    /\ session_stats'.hands_played > session_stats.hands_played =>
           pc \in {"check", "process", "settle"}
    /\ (pc = "settle" /\ pc' # "crashed") =>
           session_stats'.hands_played = session_stats.hands_played + 1

\* C29: at the end of every round hands_played = hands_won + hands_lost +
\* pushes, busts <= hands_lost and blackjacks <= hands_won; every settled
\* hand adds one to hands_played and one to exactly one outcome counter.
C29_CountersAddUp ==
    /\ [](RoundOver => CountersAddUp)
    /\ [][SettlesCountOnce]_vars

\* two rounds over: a split with a hand bust and a hand won, and a push
C29_Witness ==
    /\ pc = "cut"
    /\ session_stats.hands_played = 3
    /\ session_stats.busts = 1
    /\ session_stats.hands_won = 1
    /\ session_stats.pushes = 1

ValuationRoutines ==
    {"Hand.get_value", "GameSession.hand_value", "Dealer.get_hand_value"}

\* C30: the hand-valuation routines agree on every hand: for any sequence
\* of cards the total one of Hand.get_value, GameSession.hand_value and
\* Dealer.get_hand_value returns is the total the other two return.
C30_ValuationsAgree ==
    ret.fn \in ValuationRoutines =>
        /\ ret.val = get_value(arg)
        /\ ret.val = hand_value(arg)
        /\ ret.val = get_hand_value(arg)

=============================================================================
